---- MODULE Spec2Model ----
(***************************************************************************)
(* Model of the forecasting agent: the command loop of main.py, the        *)
(* orchestrator of src/agent.py (process_query and _plan_and_execute), the *)
(* session memory of src/memory_manager.py and the execution interface of  *)
(* src/tools_manager.py.                                                   *)
(*                                                                         *)
(* Text is modelled as a sequence of tokens.  A token is an atomic piece   *)
(* of text: a marker (ACTION:, an opening or closing code fence), a newline, a *)
(* blank, or a word of prose or code.  Python's str.find / in / split /    *)
(* strip are modelled on token positions: skipping the ten characters of   *)
(* the opening fence is skipping one token.                                *)
(***************************************************************************)
EXTENDS Integers, Sequences, FiniteSets, TLC

(***************************************************************************)
(* Bounds of the model.                                                    *)
(***************************************************************************)
\* steps of the program a behaviour of the model takes
MaxSteps == 8
\* tokens of the longest oracle response given to the parser alone
MaxLen == 6
\* records the memory holds at most when the MemoryManager is followed alone
MaxRecords == 3
\* execute_code calls followed with one snippet and one dataset
MaxCalls == 2
\* largest max_retries and retry_delay given to get_available_models
MaxRetries == 4
MaxDelay == 2
\* nesting of _plan_and_execute calls at which the interpreter raises RecursionError
RecursionLimit == 2

(***************************************************************************)
(* Text helpers.                                                           *)
(***************************************************************************)
NL == "\n"
BLANK == " "
OpenFence == "[fence python]"
Fence == "[fence]"
ActionCodeGen == "ACTION: CODE_GENERATION"

\* does the text of token tok contain marker at its start
Matches(tok, marker) ==
    \/ tok = marker
    \/ marker = Fence /\ tok = OpenFence

\* str.find(marker, from): first position >= from holding marker, 0 when absent
Find(t, marker, from) ==
    LET hits == {i \in 1..Len(t) : i >= from /\ Matches(t[i], marker)}
    IN  IF hits = {} THEN 0 ELSE CHOOSE i \in hits : \A j \in hits : i <= j

\* marker in text
Contains(t, marker) == Find(t, marker, 1) > 0

IsSpace(tok) == tok \in {NL, BLANK}

\* str.strip()
RECURSIVE LStrip(_)
LStrip(t) == IF t # <<>> /\ IsSpace(Head(t)) THEN LStrip(Tail(t)) ELSE t
RECURSIVE RStrip(_)
RStrip(t) ==
    IF t # <<>> /\ IsSpace(t[Len(t)]) THEN RStrip(SubSeq(t, 1, Len(t) - 1)) ELSE t
Strip(t) == RStrip(LStrip(t))

\* str.upper() / str.lower() of one token
Upper(tok) ==
    CASE tok = "forecast" -> "FORECAST"
      [] tok = "general" -> "GENERAL"
      [] tok = "yes" -> "YES"
      [] tok = "quit" -> "QUIT"
      [] tok = "fix" -> "FIX"
      [] OTHER -> tok
Lower(tok) ==
    CASE tok = "FORECAST" -> "forecast"
      [] tok = "GENERAL" -> "general"
      [] tok = "YES" -> "yes"
      [] tok = "QUIT" -> "quit"
      [] tok = "FIX" -> "fix"
      [] OTHER -> tok
UpperSeq(t) == [i \in 1..Len(t) |-> Upper(t[i])]

\* text.split(newline): the lines of a text; the opening fence ends with a newline
RECURSIVE SplitLines(_, _)
SplitLines(t, cur) ==
    IF t = <<>> THEN <<cur>>
    ELSE IF Head(t) = NL THEN <<cur>> \o SplitLines(Tail(t), <<>>)
    ELSE IF Head(t) = OpenFence
         THEN <<Append(cur, "[fence python")>> \o SplitLines(Tail(t), <<>>)
    ELSE SplitLines(Tail(t), Append(cur, Head(t)))
Lines(t) == SplitLines(t, <<>>)

\* the value of the last line that starts with prefix (later lines overwrite
\* earlier ones: the loop has no break), <<>> when there is none
RECURSIVE LastLineValue(_, _, _)
LastLineValue(ls, prefix, cur) ==
    IF ls = <<>> THEN cur
    ELSE LET line == Head(ls)
         IN  IF line # <<>> /\ line[1] = prefix
             THEN LastLineValue(Tail(ls), prefix, Strip(Tail(line)))
             ELSE LastLineValue(Tail(ls), prefix, cur)

(***************************************************************************)
(* Response parser of _plan_and_execute.  None and the empty string are    *)
(* both the empty sequence: the code only tests their truth value.         *)
(***************************************************************************)
\* text after the first EXPLANATION: marker, stripped
ExplanationAfter(t) ==
    LET i == Find(t, "EXPLANATION:", 1)
    IN  IF i = 0 THEN <<>> ELSE Strip(SubSeq(t, i + 1, Len(t)))

\* faulty variant: an opening fence without a closing one takes the rest
ExtractCodeToEnd(t) ==
    LET s == Find(t, OpenFence, 1)
        start == s + 1
        end == Find(t, Fence, start)
    IN  IF s = 0 THEN <<>>
        ELSE IF end > start THEN Strip(SubSeq(t, start, end - 1))
        ELSE Strip(SubSeq(t, start, Len(t)))

\* faulty variant: the code is not stripped
ExtractCodeUntrimmed(t) ==
    LET s == Find(t, OpenFence, 1)
        start == s + 1
        end == Find(t, Fence, start)
    IN  IF s > 0 /\ end > start THEN SubSeq(t, start, end - 1) ELSE <<>>

\* code between the first opening fence and the next fence
ExtractCode(t) ==
    LET s == Find(t, OpenFence, 1)
        start == s + 1
        end == Find(t, Fence, start)
    IN  IF s > 0 /\ end > start THEN Strip(SubSeq(t, start, end - 1)) ELSE <<>>

ParseResponse(t) ==
    IF Contains(t, ActionCodeGen)
    THEN [action |-> <<"CODE_GENERATION">>,
          code |-> ExtractCode(t),
          explanation |-> ExplanationAfter(t)]
    ELSE [action |-> UpperSeq(LastLineValue(Lines(t), "ACTION:", <<>>)),
          code |-> <<>>,
          explanation |-> LastLineValue(Lines(t), "EXPLANATION:", <<>>)]

\* parse of the repair reply: found is FALSE when no code block is present
ParseRepair(t, oldExplanation) ==
    LET s == Find(t, OpenFence, 1)
        end == Find(t, Fence, s + 1)
    IN  IF s > 0 /\ end > s + 1
        THEN [found |-> TRUE,
              code |-> Strip(SubSeq(t, s + 1, end - 1)),
              explanation |->
                  IF Contains(SubSeq(t, end, Len(t)), "EXPLANATION:")
                  THEN ExplanationAfter(SubSeq(t, end, Len(t)))
                  ELSE oldExplanation]
        ELSE [found |-> FALSE, code |-> <<>>, explanation |-> oldExplanation]

(***************************************************************************)
(* Values.                                                                 *)
(***************************************************************************)
\* the operator's queries, as words; main() strips the command line
Queries == {<<"plot">>, <<"fix">>, <<"fix", "csv">>}

\* query.lower().startswith('fix')
StartsWithFix(q) == q # <<>> /\ Lower(q[1]) = "fix"
\* query[3:].strip()
FixInstructions(q) == Strip(Tail(q))

\* replies of the oracle
RespCodeGen ==
    <<ActionCodeGen, NL, OpenFence, "c1", NL, Fence, NL, "EXPLANATION:", "e1">>
RespCodeGenNoCode == <<ActionCodeGen, NL, OpenFence, "c1", NL>>
RespCodeGenNoFence == <<ActionCodeGen, NL, "c1">>
RespForecast == <<"ACTION:", BLANK, "forecast", NL, "EXPLANATION:", "e1">>
RespAnalysis == <<"ACTION:", "DATA_ANALYSIS">>
RespCodeExec == <<"ACTION:", "CODE_EXECUTION", NL, "EXPLANATION:", "c1">>
RespGeneral == <<"ACTION:", "GENERAL">>
RespUnknown == <<"ACTION:", "SUMMARIZE">>
RespProse == <<"hello">>
RespRepair ==
    <<"ERROR ANALYSIS:", "a", NL, "CODE:", NL, OpenFence, "c2", NL, Fence, NL,
      "EXPLANATION:", "e2">>
RespRepairNoCode == <<"ERROR ANALYSIS:", "a">>

\* replies drawn for each kind of request
QueryReplies ==
    {RespCodeGen, RespCodeGenNoCode, RespCodeGenNoFence, RespForecast, RespAnalysis, RespCodeExec,
     RespGeneral, RespUnknown, RespProse}
RepairReplies == {RespRepair, RespRepairNoCode}
FixReplies == {RespRepair}
FallbackReplies == {RespProse}

\* llm.invoke either returns a reply or raises
OracleOutcomes(replies) ==
    [ok : {TRUE}, text : replies] \cup {[ok |-> FALSE, text |-> <<>>]}

\* the csv files the operator can name, and what the frame read from each holds
CsvFiles == {"good.csv", "nodate.csv", "missing.csv"}
Readable(csv) == csv # "missing.csv"
HasDate(csv) == csv \in {"good.csv", "baddate.csv", "natdate.csv"}
None == "None"

\* answers the operator types
ConfirmAnswers == {"yes", "YES", "quit", "no"}
ChoiceAnswers == {"1", "2", "3"}

\* messages
NoPreviousMsg == <<"No previous code execution to fix. Please run a command first.">>
NoInstructionsMsg ==
    <<"Please provide instructions for the fix, e.g., 'fix write results to csv'">>
NoActionMsg == <<"Couldn't determine appropriate action">>
NoCodeMsg == <<"No code was generated">>
CancelledMsg == <<"Code execution cancelled by user">>
ExecCancelledMsg == <<"Code execution cancelled.">>
AnalyzeFirstMsg == <<"Please analyze a dataset first using the 'analyze' command.">>
DepsMsg == "Required packages not installed. Cannot execute code."
ActionError(e) == <<"Error executing action: ", e>>
QueryError(e) == <<"Error processing query: ", e>>
MainError(e) == <<"Error: ", e>>

(***************************************************************************)
(* ToolsManager.execute_code and format_code_output.  What the snippet and *)
(* the dependency check do is the environment's choice env.                *)
(***************************************************************************)
\* env: "ok" the snippet runs, prints and binds a name, "raises" it raises an
\* Exception, "deps" a module is missing and is not installed, "probe_raises"
\* the dependency check itself raises, "exit" the snippet raises SystemExit
ExecEnvs == {"ok", "raises", "deps", "probe_raises", "exit"}

NoResult ==
    [output |-> "", results |-> None, success |-> FALSE, debug_info |-> FALSE,
     error_context |-> FALSE]

execute_code(snippet, df, env) ==
    CASE env = "deps" ->
            [output |-> DepsMsg, results |-> None, success |-> FALSE,
             debug_info |-> FALSE, error_context |-> FALSE]
      [] env = "ok" ->
            [output |-> "printed", results |-> "{result}", success |-> TRUE,
             debug_info |-> TRUE, error_context |-> FALSE]
      [] OTHER ->
            [output |-> IF df = None THEN "Error executing code"
                        ELSE "Error executing code; DataFrame Info",
             results |-> None, success |-> FALSE,
             debug_info |-> FALSE, error_context |-> TRUE]

format_code_output(r) ==
    <<"=== Code Execution Results ===">> \o
    (IF r.success
     THEN (IF r.output # "" THEN <<"Output:", r.output>> ELSE <<>>) \o
          (IF r.results \notin {"{}", None}
           THEN <<"Returned Variables:", r.results>> ELSE <<>>)
     ELSE <<"Execution Failed:", r.output>>)

\* the entry appended to attempt_history after a failed execution
AttemptRecord(n, c, r) ==
    [attempt |-> n, code |-> c, error |-> r.output,
     debug_info |-> r.debug_info, error_context |-> r.error_context]

(***************************************************************************)
(* State.                                                                  *)
(***************************************************************************)
VARIABLES
    pc,                  \* where the program waits: for a command, an answer or a reply
    steps,               \* steps taken so far
    ret,                 \* what the last turn returned or raised
    query,               \* original_query of the turn
    code,                \* code of the CODE_GENERATION loop
    explanation,
    attempt,
    attempt_history,     \* index in lists of the turn's attempt_history, 0 outside the loop
    lists,               \* the attempt_history list objects created so far
    result,              \* result of the last execute_code of the loop
    fix_response,
    depth,               \* nesting of _plan_and_execute calls on a fix query
    last_code,           \* ForecastingAgent._last_code, <<>> for None
    last_error,
    last_result,
    current_data,
    current_context,
    short_term_memory,
    conversation_history,
    last_execution,
    long_term_memory,
    cmd,                 \* the command main() read last
    nExec,               \* execute_code calls of the turn
    nOracle,             \* llm.invoke calls of the turn
    prompt,              \* the prompt of the last llm.invoke
    lastExec,            \* the last execute_code call: its snippet and what came back
    answer,              \* what the operator typed in this step, "" in other steps
    executed,            \* execute_code was called in this session
    presented,           \* the turn asked the operator to confirm code
    failed,              \* outputs of the failed executions of the current loop
    xpc,                 \* position in the execute_code call followed stage by stage
    call,                \* that call's snippet, dataset and environment
    debug_info,
    local_vars,          \* names of the namespace the snippet runs in
    stdout,              \* what the redirected standard output captured
    exc,                 \* kind of the exception raised in the call, "" if none
    xret,                \* the dict the call returned
    ran,                 \* exec was called on the snippet
    ncalls,              \* execute_code calls made with that snippet and dataset
    xprev,               \* the dict the call before this one returned
    dataset,             \* the DataFrame object passed as df, as it is now
    module_globals,      \* names bound in the globals of tools_manager
    importable,          \* packages an import finds
    missing_packages,    \* the list check_and_install_dependencies built
    attempted,           \* packages install_package was called on in this call
    ppc,                 \* position of the parser: "idle", "given" or "parsed"
    response_text,       \* the oracle response handed to the parser
    parsed,              \* what the parser made of it
    op,                  \* the MemoryManager method called last, "" if none
    context,             \* what get_relevant_context returned last
    gpc,                 \* position in get_available_models
    max_retries,
    retry_delay,
    tries,               \* outcomes of the connection attempts made so far
    waits,               \* calls of time.sleep so far
    slept,               \* seconds slept so far
    models               \* what get_available_models returned or raised

frame == <<query, code, explanation, attempt, attempt_history, result,
           fix_response, depth>>
agent == <<last_code, last_error, last_result>>
data == <<current_data, current_context>>
memory == <<short_term_memory, conversation_history, last_execution,
            long_term_memory>>
history == <<cmd, executed, presented, failed>>
sandbox == <<xpc, call, debug_info, local_vars, stdout, exc, xret, ran, ncalls,
             xprev, dataset, module_globals, importable, missing_packages,
             attempted>>
parser == <<ppc, response_text, parsed>>
session == <<pc, steps, ret, frame, lists, agent, data, memory, nExec, nOracle,
             prompt, lastExec, answer, history>>
retrieval == <<op, context>>
rest == <<pc, steps, ret, frame, lists, agent, data, nExec, nOracle, prompt,
          lastExec, answer, history>>
ollama == <<gpc, max_retries, retry_delay, tries, waits, slept, models>>
vars == <<session, sandbox, parser, retrieval, ollama>>

Pending == [kind |-> "none", text |-> <<>>]
NoPrompt == [kind |-> "none", code |-> <<>>, detail |-> <<>>, instr |-> <<>>, hist |-> <<>>]
NoExec == [code |-> <<>>, returned |-> FALSE, result |-> NoResult]
NoInteraction ==
    [query |-> <<>>, response |-> <<>>, code |-> <<>>, error |-> None, fixes |-> 0,
     result |-> None]

\* no execute_code call is followed, no response is being parsed
NoCall ==
    [missing |-> <<>>, install_answer |-> "", pip |-> <<>>, probe |-> "",
     df |-> None, binds |-> {}, prints |-> FALSE, ends |-> "",
     adds_column |-> FALSE, globs |-> {}]
\* data_info of a call without df (None in the code)
NoDataInfo == [shape |-> "", columns |-> "", dtypes |-> "", null_counts |-> ""]
NoDebugInfo == [data_info |-> NoDataInfo, execution_step |-> ""]
\* no DataFrame object
NoFrame == [file |-> None, columns |-> "", dates |-> "", nulls |-> ""]
\* names the module tools_manager binds at its top level
HostGlobals ==
    {<<"pd">>, <<"np">>, <<"subprocess">>, <<"sys">>, <<"install_package">>,
     <<"ToolsManager">>}
NoDict ==
    [keys |-> {}, output |-> <<>>, results |-> {}, success |-> FALSE,
     debug_info |-> NoDebugInfo, error_type |-> ""]
SandboxIdle ==
    /\ xpc = "idle" /\ call = NoCall /\ debug_info = NoDebugInfo
    /\ local_vars = {} /\ stdout = <<>> /\ exc = "" /\ xret = NoDict
    /\ ran = FALSE
    /\ ncalls = 0 /\ xprev = NoDict /\ dataset = NoFrame
    /\ module_globals = HostGlobals /\ importable = {}
    /\ missing_packages = <<>> /\ attempted = <<>>
NoParse == [action |-> <<>>, code |-> <<>>, explanation |-> <<>>]
ParserIdle == ppc = "idle" /\ response_text = <<>> /\ parsed = NoParse

NoContext == [keys |-> {}, last_analysis |-> None, conversation_history |-> <<>>]
RetrievalIdle == op = "" /\ context = NoContext

NoModels == [kind |-> "none", value |-> <<>>]
OllamaIdle ==
    /\ gpc = "idle" /\ max_retries = 3 /\ retry_delay = 1
    /\ tries = <<>> /\ waits = 0 /\ slept = 0 /\ models = NoModels

\* the session after main() has built and initialized the agent
InitSession ==
    /\ pc = "main"
    /\ steps = 0
    /\ ret = Pending
    /\ query = <<>> /\ code = <<>> /\ explanation = <<>>
    /\ attempt = 0 /\ attempt_history = 0 /\ lists = <<>>
    /\ result = NoResult /\ fix_response = <<>>
    /\ depth = 0
    /\ last_code = <<>> /\ last_error = <<>> /\ last_result = <<>>
    /\ current_data = None /\ current_context = None
    /\ short_term_memory = <<>> /\ conversation_history = <<>>
    /\ last_execution = NoInteraction
    /\ long_term_memory = <<>>
    /\ cmd = <<>>
    /\ nExec = 0 /\ nOracle = 0 /\ prompt = NoPrompt /\ lastExec = NoExec
    /\ answer = ""
    /\ executed = FALSE /\ presented = FALSE /\ failed = <<>>

Init == InitSession /\ SandboxIdle /\ ParserIdle /\ RetrievalIdle /\ OllamaIdle

(***************************************************************************)
(* MemoryManager.  The fixes of an interaction is the attempt_history list *)
(* object itself (its index in lists), 0 for None.                         *)
(***************************************************************************)
Interaction(q, response, c, error, fixes) ==
    [query |-> q, response |-> response, code |-> c, error |-> error,
     fixes |-> fixes, result |-> None]

MemoryRecord(type, interaction, payload) ==
    [type |-> type, content |-> interaction, payload |-> payload]

Mem == [stm |-> short_term_memory, ch |-> conversation_history,
        le |-> last_execution, ltm |-> long_term_memory]

\* faulty variant: the interaction is put at the front of the history
store_interaction_first(m, q, response, c, error, fixes) ==
    LET i == Interaction(q, response, c, error, fixes)
    IN  [stm |-> Append(m.stm, MemoryRecord("interaction", i, None)),
         ch |-> <<i>> \o m.ch,
         le |-> i,
         ltm |-> m.ltm]

store_interaction(m, q, response, c, error, fixes) ==
    LET i == Interaction(q, response, c, error, fixes)
    IN  [stm |-> Append(m.stm, MemoryRecord("interaction", i, None)),
         ch |-> Append(m.ch, i),
         le |-> i,
         ltm |-> m.ltm]

store_dataset_info(m, csv) ==
    [m EXCEPT !.stm = Append(@, MemoryRecord("dataset_info", NoInteraction, csv))]

\* faulty variant: the new analysis takes the place of the last record
store_analysis_in_place(m, csv) ==
    IF m.stm = <<>> THEN m
    ELSE [m EXCEPT !.stm[Len(m.stm)] = MemoryRecord("analysis", NoInteraction, csv)]

store_analysis(m, csv) ==
    [m EXCEPT !.stm = Append(@, MemoryRecord("analysis", NoInteraction, csv))]

\* faulty variant: the scan for an analysis starts at the oldest record
RECURSIVE FirstAnalysis(_, _)
FirstAnalysis(stm, i) ==
    IF i > Len(stm) THEN 0
    ELSE IF stm[i].type = "analysis" THEN i
    ELSE FirstAnalysis(stm, i + 1)
OldestAnalysis(stm, i) == FirstAnalysis(stm, 1)

\* the loop over reversed(short_term_memory) with its break: the index of
\* the record it stops at, 0 when it finds none
RECURSIVE LastAnalysis(_, _)
LastAnalysis(stm, i) ==
    IF i = 0 THEN 0
    ELSE IF stm[i].type = "analysis" THEN i
    ELSE LastAnalysis(stm, i - 1)

get_relevant_context(m) ==
    LET i == LastAnalysis(m.stm, Len(m.stm))
    IN  [keys |-> IF i = 0 THEN {"conversation_history"}
                  ELSE {"last_analysis", "conversation_history"},
         last_analysis |-> IF i = 0 THEN None ELSE m.stm[i].payload,
         conversation_history |-> m.ch]

SetMemory(m) ==
    /\ short_term_memory' = m.stm
    /\ conversation_history' = m.ch
    /\ last_execution' = m.le
    /\ long_term_memory' = m.ltm

(***************************************************************************)
(* Prompts.                                                                *)
(***************************************************************************)
QueryPrompt(q) ==
    [kind |-> "query", code |-> <<>>, detail |-> <<>>, instr |-> q, hist |-> <<>>]
FixSeedPrompt(q) ==
    [kind |-> "fix_seed", code |-> last_code, detail |-> last_result,
     instr |-> FixInstructions(q), hist |-> <<>>]
FixPrompt(q) ==
    [kind |-> "fix", code |-> last_code, detail |-> last_error,
     instr |-> FixInstructions(q), hist |-> <<>>]
\* faulty variant: only the latest attempt is summarised
AttemptsSummaryLatest(h) ==
    IF h = <<>> THEN <<>>
    ELSE <<[attempt |-> h[Len(h)].attempt, error |-> h[Len(h)].error]>>

\* the Previous Attempts Summary lists attempt and error of every entry
AttemptsSummary(h) ==
    [i \in 1..Len(h) |-> [attempt |-> h[i].attempt, error |-> h[i].error]]
RepairPrompt(c, r, h) ==
    [kind |-> "repair", code |-> c, detail |-> <<r.output>>, instr |-> <<>>,
     hist |-> AttemptsSummary(h)]
FallbackPrompt(q) ==
    [kind |-> "fallback", code |-> <<>>, detail |-> <<>>, instr |-> q, hist |-> <<>>]

\* the Data Context of the fix and repair prompts reads len(current_data) and
\* current_data['date']: the exception raised while formatting it, None if none
DataContextError ==
    IF current_data = None THEN "TypeError"
    ELSE IF ~HasDate(current_data) THEN "KeyError"
    ELSE None

(***************************************************************************)
(* Steps shared by the actions.  print and input are taken not to fail, so *)
(* the handler around the parse of the repair reply is never entered.      *)
(***************************************************************************)
ResetFrame ==
    /\ query' = <<>> /\ code' = <<>> /\ explanation' = <<>>
    /\ attempt' = 0 /\ attempt_history' = 0
    /\ result' = NoResult /\ fix_response' = <<>>
    /\ depth' = 0

\* the turn returns text to main (kind "value") or raises to it ("raised")
Return(kind, text) ==
    /\ pc' = "main"
    /\ ret' = [kind |-> kind, text |-> text]
    /\ ResetFrame

\* one more step, within the bound
Step ==
    /\ steps < MaxSteps
    /\ steps' = steps + 1
    /\ UNCHANGED <<sandbox, parser, retrieval, ollama>>

Invoke(p) ==
    /\ nOracle' = nOracle + 1
    /\ prompt' = p

\* main() reads a command: the records of the turn start afresh
ReadCommand(c) ==
    /\ cmd' = c
    /\ nExec' = 0
    /\ answer' = ""
    /\ lastExec' = NoExec
    /\ presented' = FALSE
    /\ failed' = <<>>
    /\ UNCHANGED executed

(***************************************************************************)
(* ForecastingAgent.process_dataset: returns the analysis or raises.       *)
(***************************************************************************)
\* pd.read_csv raises on a missing path; generate_descriptive_analysis reads
\* df['date'] and raises KeyError after the dataset info was stored
ProcessDatasetError(csv) ==
    IF csv = None THEN "ValueError"
    ELSE IF ~Readable(csv) THEN "FileNotFoundError"
    ELSE IF ~HasDate(csv) THEN "KeyError"
    ELSE None

process_dataset(m, csv) ==
    IF csv = None \/ ~Readable(csv) THEN m
    ELSE IF ~HasDate(csv) THEN store_dataset_info(m, csv)
    ELSE store_analysis(store_dataset_info(m, csv), csv)

AnalysisOf(csv) == <<"analysis", csv>>

(***************************************************************************)
(* main(): the analyze command.                                            *)
(***************************************************************************)
CmdAnalyze(csv) ==
    /\ pc = "main"
    /\ Step
    /\ ReadCommand(<<"analyze", csv>>)
    /\ nOracle' = 0 /\ prompt' = NoPrompt
    /\ UNCHANGED <<lists, agent>>
    /\ IF ~Readable(csv)
       THEN /\ Return("raised", MainError("FileNotFoundError"))
            /\ UNCHANGED <<data, memory>>
       ELSE /\ current_data' = csv
            /\ current_context' = csv
            /\ SetMemory(process_dataset(Mem, csv))
            /\ IF ProcessDatasetError(csv) = None
               THEN Return("value", AnalysisOf(csv))
               ELSE Return("raised", MainError(ProcessDatasetError(csv)))

(***************************************************************************)
(* main(): the /bye command.  save_session writes the memory to disk and   *)
(* may raise; the break is reached only when it returns.                   *)
(***************************************************************************)
CmdBye(saved) ==
    /\ pc = "main"
    /\ Step
    /\ ReadCommand(<<"/bye">>)
    /\ nOracle' = 0 /\ prompt' = NoPrompt
    /\ UNCHANGED <<lists, agent, data, memory>>
    /\ IF saved
       THEN /\ pc' = "exited"
            /\ ret' = [kind |-> "bye", text |-> <<>>]
            /\ ResetFrame
       ELSE Return("raised", MainError("OSError"))

(***************************************************************************)
(* process_query up to its llm.invoke.  n0 is the number of oracle calls   *)
(* made so far in the turn.                                                *)
(***************************************************************************)
\* faulty variant: a previous execution is not required
HasPreviousAlways == TRUE

\* a previous execution left code and a result to fix
HasPrevious == last_code # <<>> /\ last_result # <<>>

AwaitReply(where, q) ==
    /\ pc' = where
    /\ query' = q
    /\ code' = <<>> /\ explanation' = <<>> /\ attempt' = 0
    /\ attempt_history' = 0 /\ result' = NoResult
    /\ fix_response' = <<>> /\ depth' = 0
    /\ ret' = Pending

ProcessQueryStart(q, n0) ==
    IF StartsWithFix(q)
    THEN IF ~HasPrevious
         THEN /\ Return("value", NoPreviousMsg)
              /\ nOracle' = n0 /\ prompt' = IF n0 = 0 THEN NoPrompt ELSE prompt
         ELSE IF FixInstructions(q) = <<>>
         THEN /\ Return("value", NoInstructionsMsg)
              /\ nOracle' = n0 /\ prompt' = IF n0 = 0 THEN NoPrompt ELSE prompt
         ELSE /\ nOracle' = n0 + 1 /\ prompt' = FixSeedPrompt(q)
              /\ AwaitReply("wait_seed", q)
    ELSE /\ nOracle' = n0 + 1 /\ prompt' = QueryPrompt(q)
         /\ AwaitReply("wait_query", q)

\* main(): any other command is a query
CmdQuery(q) ==
    /\ pc = "main"
    /\ Step
    /\ ReadCommand(q)
    /\ ProcessQueryStart(q, 0)
    /\ UNCHANGED <<lists, agent, data, memory>>

(***************************************************************************)
(* A query starting with fix: the reply to the seeded request enters       *)
(* _plan_and_execute, whose fix branch asks again and calls itself with    *)
(* the same original_query.                                                *)
(***************************************************************************)
FixBranch(d) ==
    IF d > RecursionLimit
    THEN /\ Return("value", ActionError("RecursionError"))
         /\ UNCHANGED <<nOracle, prompt>>
    ELSE IF DataContextError # None
    THEN /\ Return("value", ActionError(DataContextError))
         /\ UNCHANGED <<nOracle, prompt>>
    ELSE /\ Invoke(FixPrompt(query))
         /\ pc' = "wait_fix"
         /\ depth' = d
         /\ UNCHANGED <<ret, query, code, explanation, attempt, attempt_history,
                        result, fix_response>>

SeedReply(o) ==
    /\ pc = "wait_seed"
    /\ Step
    /\ answer' = ""
    /\ UNCHANGED <<lists, agent, data, memory, nExec, lastExec, history>>
    /\ IF ~o.ok
       THEN /\ Return("raised", MainError("OracleError"))
            /\ UNCHANGED <<nOracle, prompt>>
       ELSE FixBranch(1)

FixReply(o) ==
    /\ pc = "wait_fix"
    /\ Step
    /\ answer' = ""
    /\ UNCHANGED <<lists, agent, data, memory, nExec, lastExec, history>>
    /\ IF ~o.ok
       THEN /\ Return("value", ActionError("OracleError"))
            /\ UNCHANGED <<nOracle, prompt>>
       ELSE FixBranch(depth + 1)

(***************************************************************************)
(* _plan_and_execute on the reply to a plain query: parse and dispatch.    *)
(* m is the session memory after process_query stored the interaction.     *)
(***************************************************************************)
EnterLoop(p) ==
    /\ pc' = "confirm"
    /\ code' = p.code
    /\ explanation' = p.explanation
    /\ attempt' = 1
    /\ lists' = Append(lists, <<>>)
    /\ attempt_history' = Len(lists) + 1
    /\ presented' = TRUE
    /\ failed' = <<>>
    /\ UNCHANGED <<ret, query, result, fix_response, depth>>

\* faulty variant: an action outside the handled ones counts as no action
IsNoActionOrUnknown(a) ==
    a \notin {<<"CODE_GENERATION">>, <<"FORECAST">>, <<"DATA_ANALYSIS">>,
               <<"CODE_EXECUTION">>}

\* if not action
IsNoAction(a) == a = <<>>

Dispatch(t, m) ==
    LET p == ParseResponse(t)
    IN  IF IsNoAction(p.action)
        THEN /\ Return("value", NoActionMsg)
             /\ SetMemory(m)
             /\ UNCHANGED <<lists, data, nOracle, prompt, presented, failed>>
        ELSE IF p.action = <<"CODE_GENERATION">>
        THEN /\ IF p.code = <<>>
                THEN /\ Return("value", NoCodeMsg)
                     /\ UNCHANGED <<lists, presented, failed>>
                ELSE EnterLoop(p)
             /\ SetMemory(m)
             /\ UNCHANGED <<data, nOracle, prompt>>
        ELSE IF p.action = <<"FORECAST">>
        THEN /\ IF current_data = None
                THEN Return("value", AnalyzeFirstMsg)
                ELSE IF HasDate(current_data)
                THEN Return("value", <<"=== Forecasting Results ===", current_data>>)
                ELSE Return("value", ActionError("KeyError"))
             /\ SetMemory(m)
             /\ UNCHANGED <<lists, data, nOracle, prompt, presented, failed>>
        ELSE IF p.action = <<"DATA_ANALYSIS">>
        THEN /\ IF ProcessDatasetError(current_context) = None
                THEN Return("value", AnalysisOf(current_context))
                ELSE Return("value", ActionError(ProcessDatasetError(current_context)))
             /\ SetMemory(process_dataset(m, current_context))
             /\ UNCHANGED <<lists, data, nOracle, prompt, presented, failed>>
        ELSE IF p.action = <<"CODE_EXECUTION">>
        THEN /\ IF current_data = None
                THEN Return("value", AnalyzeFirstMsg)
                ELSE /\ pc' = "confirm_exec"
                     /\ explanation' = p.explanation
                     /\ UNCHANGED <<ret, query, code, attempt, attempt_history,
                                    result, fix_response, depth>>
             /\ SetMemory(m)
             /\ UNCHANGED <<lists, data, nOracle, prompt, presented, failed>>
        ELSE /\ Invoke(FallbackPrompt(query))
             /\ pc' = "wait_fallback"
             /\ SetMemory(m)
             /\ UNCHANGED <<ret, frame, lists, data, presented, failed>>

QueryReply(o) ==
    /\ pc = "wait_query"
    /\ Step
    /\ answer' = ""
    /\ UNCHANGED <<agent, nExec, lastExec, cmd, executed>>
    /\ IF ~o.ok
       THEN /\ Return("value", QueryError("OracleError"))
            /\ UNCHANGED <<lists, data, memory, nOracle, prompt, presented, failed>>
       ELSE Dispatch(o.text, store_interaction(Mem, query, o.text, <<>>, None, 0))

FallbackReply(o) ==
    /\ pc = "wait_fallback"
    /\ Step
    /\ answer' = ""
    /\ UNCHANGED <<lists, agent, data, memory, nExec, nOracle, prompt, lastExec,
                   history>>
    /\ IF ~o.ok
       THEN Return("value", ActionError("OracleError"))
       ELSE Return("value", o.text)

(***************************************************************************)
(* The CODE_GENERATION loop.                                               *)
(***************************************************************************)
\* SystemExit is no Exception: no handler of the turn or of main catches it
Exit ==
    /\ pc' = "exited"
    /\ ret' = [kind |-> "exit", text |-> <<>>]
    /\ ResetFrame

\* user_input == 'quit', on the lowered answer
Quits(ans) == Lower(ans) = "quit"

\* faulty variant: anything but no confirms
ConfirmedUnlessNo(ans) == Lower(ans) # "no"

\* user_input == 'yes', on the lowered answer
Confirmed(ans) == Lower(ans) = "yes"

\* faulty variant: the fields are stored after a successful execution only
StoreLastOnSuccess(c, r) ==
    IF r.success
    THEN /\ last_code' = c
         /\ last_error' = <<r.results>>
         /\ last_result' = format_code_output(r)
    ELSE UNCHANGED <<last_code, last_error, last_result>>

\* the fields kept for a later fix query
StoreLast(c, r) ==
    /\ last_code' = c
    /\ last_error' = IF ~r.success THEN <<r.output>> ELSE <<r.results>>
    /\ last_result' = format_code_output(r)

\* faulty variants: the loop never returns on success; it returns on every result
ExecutionEndsTurnNever(r) == FALSE
ExecutionEndsTurnAlways(r) == TRUE

\* if result['success']: return
ExecutionEndsTurn(r) == r.success

\* the attempt history after a failed execution
AppendAttempt(h, n, c, r) == Append(h, AttemptRecord(n, c, r))

\* after a failed execution: build the repair prompt and ask the oracle
AskForFix(r, h) ==
    IF DataContextError # None
    THEN /\ Return("value", ActionError(DataContextError))
         /\ UNCHANGED <<nOracle, prompt>>
    ELSE /\ Invoke(RepairPrompt(code, r, h))
         /\ pc' = "wait_repair"
         /\ result' = r
         /\ UNCHANGED <<ret, query, code, explanation, attempt, attempt_history,
                        fix_response, depth>>

Execute(env) ==
    /\ nExec' = nExec + 1
    /\ executed' = TRUE
    /\ IF env = "exit"
       THEN /\ Exit
            /\ lastExec' = [code |-> code, returned |-> FALSE, result |-> NoResult]
            /\ UNCHANGED <<lists, agent, nOracle, prompt, failed>>
       ELSE IF env = "probe_raises"
       THEN /\ Return("value", ActionError("Exception"))
            /\ lastExec' = [code |-> code, returned |-> FALSE, result |-> NoResult]
            /\ UNCHANGED <<lists, agent, nOracle, prompt, failed>>
       ELSE LET r == execute_code(code, current_data, env)
                h == AppendAttempt(lists[attempt_history], attempt, code, r)
            IN  /\ lastExec' = [code |-> code, returned |-> TRUE, result |-> r]
                /\ StoreLast(code, r)
                /\ failed' = IF r.success THEN failed ELSE Append(failed, r.output)
                /\ IF ExecutionEndsTurn(r)
                   THEN /\ Return("value", last_result')
                        /\ UNCHANGED <<lists, nOracle, prompt>>
                   ELSE /\ lists' = [lists EXCEPT ![attempt_history] = h]
                        /\ AskForFix(r, h)

Confirm(ans, env) ==
    /\ pc = "confirm"
    /\ Step
    /\ answer' = ans
    /\ UNCHANGED <<data, memory, cmd, presented>>
    /\ IF Quits(ans)
       THEN /\ Return("value", CancelledMsg)
            /\ UNCHANGED <<lists, agent, nExec, nOracle, prompt, lastExec,
                           executed, failed>>
       ELSE IF ~Confirmed(ans)
       THEN /\ attempt' = attempt + 1
            /\ UNCHANGED <<pc, ret, query, code, explanation, attempt_history,
                           result, fix_response, depth, lists, agent,
                           nExec, nOracle, prompt, lastExec, executed, failed>>
       ELSE Execute(env)

RepairReply(o) ==
    /\ pc = "wait_repair"
    /\ Step
    /\ answer' = ""
    /\ UNCHANGED <<lists, agent, data, memory, nExec, nOracle, prompt, lastExec,
                   history>>
    /\ IF ~o.ok
       THEN Return("value", ActionError("OracleError"))
       ELSE LET p == ParseRepair(o.text, explanation)
            IN  /\ fix_response' = o.text
                /\ UNCHANGED <<ret, query, attempt_history, result, depth>>
                /\ IF p.found
                   THEN /\ code' = p.code
                        /\ explanation' = p.explanation
                        /\ attempt' = attempt + 1
                        /\ pc' = "confirm"
                   ELSE /\ pc' = "choice"
                        /\ UNCHANGED <<code, explanation, attempt>>

\* faulty variant: 2 and 3 are swapped
ChoiceMeansSwapped(ch) ==
    IF ch = "3" THEN "restart" ELSE IF ch = "2" THEN "cancel" ELSE "retry"

\* what the answer to Enter choice (1/2/3) selects
ChoiceMeans(ch) ==
    IF ch = "2" THEN "restart" ELSE IF ch = "3" THEN "cancel" ELSE "retry"

Choice(ch) ==
    /\ pc = "choice"
    /\ Step
    /\ answer' = ch
    /\ UNCHANGED <<lists, agent, data, nExec, lastExec, history>>
    /\ IF ChoiceMeans(ch) = "restart"
       THEN /\ ProcessQueryStart(query, nOracle)
            /\ UNCHANGED memory
       ELSE IF ChoiceMeans(ch) = "cancel"
       THEN /\ Return("value", CancelledMsg)
            /\ UNCHANGED <<memory, nOracle, prompt>>
       ELSE /\ SetMemory(store_interaction(Mem, query, fix_response, code,
                                           result.output, attempt_history))
            /\ attempt' = attempt + 1
            /\ pc' = "confirm"
            /\ UNCHANGED <<ret, query, code, explanation, attempt_history, result,
                           fix_response, depth, nOracle, prompt>>

(***************************************************************************)
(* The CODE_EXECUTION action: the explanation is run after one question.   *)
(***************************************************************************)
ConfirmExec(ans, env) ==
    /\ pc = "confirm_exec"
    /\ Step
    /\ answer' = ans
    /\ UNCHANGED <<lists, agent, data, memory, nOracle, prompt, cmd, presented,
                   failed>>
    /\ IF ~Confirmed(ans)
       THEN /\ Return("value", ExecCancelledMsg)
            /\ UNCHANGED <<nExec, lastExec, executed>>
       ELSE /\ nExec' = nExec + 1
            /\ executed' = TRUE
            /\ IF explanation = <<>>
               THEN /\ Return("value", ActionError("TypeError"))
                    /\ lastExec' = [code |-> explanation, returned |-> FALSE,
                                    result |-> NoResult]
               ELSE IF env = "exit"
               THEN /\ Exit
                    /\ lastExec' = [code |-> explanation, returned |-> FALSE,
                                    result |-> NoResult]
               ELSE IF env = "probe_raises"
               THEN /\ Return("value", ActionError("Exception"))
                    /\ lastExec' = [code |-> explanation, returned |-> FALSE,
                                    result |-> NoResult]
               ELSE LET r == execute_code(explanation, current_data, env)
                    IN  /\ Return("value", format_code_output(r))
                        /\ lastExec' = [code |-> explanation, returned |-> TRUE,
                                        result |-> r]

(***************************************************************************)
(* ToolsManager.execute_code followed stage by stage.  A call is the       *)
(* snippet, the dataset and the environment: which imported modules are    *)
(* missing, whether importing one of them raises something other than     *)
(* ImportError (probe), what the operator answers to the install question, *)
(* what pip does with each package, and what the snippet does when run.    *)
(* Names are sequences whose first element holds the leading underscores.  *)
(* The results of a failed call are None: the empty set here.              *)
(***************************************************************************)
Packages == {"m1", "m2"}
PipOutcomes == {"installs", "fails", "broken"}
\* natdate.csv has the text NaT in its date column, which read_csv keeps as
\* text and pd.to_datetime turns into a null
Frames == {None, "good.csv", "baddate.csv", "nodate.csv", "natdate.csv"}
Injected == {<<"df">>, <<"pd">>, <<"np">>}
Bindings ==
    {{}, {<<"x">>}, {<<"x">>, <<"df">>, <<"__", "tmp">>}, {<<"pd">>, <<"_", "y">>}}
\* names a snippet declares global and assigns
GlobalBindings == {{}, {<<"g">>}}
NoPip == [p \in Packages |-> "fails"]
\* a call: what the environment does (missing, install_answer, pip, probe),
\* the dataset, and what the snippet does.  The answer and the outcome of
\* pip are drawn only where the code reads them.
Calls ==
    {c \in [missing : {<<>>, <<"m1">>, <<"m1", "m2">>},
            install_answer : {"yes", "YES", "no"},
            pip : [Packages -> PipOutcomes],
            probe : {"ok", "raises"},
            df : Frames,
            binds : Bindings,
            prints : BOOLEAN,
            ends : {"ok", "ValueError", "SystemExit"},
            adds_column : BOOLEAN,
            globs : GlobalBindings] :
        /\ c.missing = <<>> => c.install_answer = "no"
        /\ \A p \in Packages :
              (\A i \in DOMAIN c.missing : c.missing[i] # p) => c.pip[p] = "fails"
        /\ (c.df = None \/ c.ends = "SystemExit") => ~c.adds_column}

\* the DataFrame read from a file
FrameOf(csv) ==
    IF csv = None THEN NoFrame
    ELSE [file |-> csv,
          columns |-> IF HasDate(csv) THEN "date,value" ELSE "value",
          dates |-> IF HasDate(csv) THEN "object" ELSE "",
          nulls |-> "0"]

\* shape, columns, dtypes and null_counts of df; the shape of a frame is
\* told by the file it was read from
DataInfo(d) ==
    [shape |-> d.file, columns |-> d.columns, dtypes |-> d.dates,
     null_counts |-> d.nulls]

\* df['date'] = pd.to_datetime(df['date']), on the caller's object
ToDatetime(d) ==
    [d EXCEPT !.dates = "datetime64",
              !.nulls = IF d.file = "natdate.csv" THEN "1" ELSE d.nulls]

\* install_package and the import that follows it, package by package
RECURSIVE InstallAll(_, _)
InstallAll(pkgs, pip) ==
    IF pkgs = <<>> THEN TRUE
    ELSE IF pip[Head(pkgs)] = "installs" THEN InstallAll(Tail(pkgs), pip)
    ELSE FALSE

\* the packages that loop calls install_package on
RECURSIVE Attempted(_, _)
Attempted(pkgs, pip) ==
    IF pkgs = <<>> THEN <<>>
    ELSE IF pip[Head(pkgs)] = "installs"
    THEN <<Head(pkgs)>> \o Attempted(Tail(pkgs), pip)
    ELSE <<Head(pkgs)>>

\* the required modules whose import raises ImportError
Missing(c, found) == SelectSeq(c.missing, LAMBDA p : p \notin found)

check_and_install_dependencies(c, found) ==
    IF Missing(c, found) = <<>> THEN TRUE
    ELSE IF Lower(c.install_answer) = "yes"
    THEN InstallAll(Missing(c, found), c.pip)
    ELSE FALSE

\* faulty variant: every name of the namespace is returned
CollectAll(lv) == lv

\* the dict comprehension over local_vars
Collect(lv) == {k \in lv : k \notin Injected /\ k[1] # "__"}

ErrorMsg(e, info) ==
    <<"Error executing code", e, "Last Execution Step", info.execution_step>> \o
    (IF info.data_info # NoDataInfo
     THEN <<"DataFrame Info", info.data_info.shape, info.data_info.columns,
            info.data_info.dtypes>> \o
          (IF info.data_info.null_counts # "0"
           THEN <<"Null Counts", info.data_info.null_counts>> ELSE <<>>)
     ELSE <<>>)

\* the dependency check comes first, outside the try
CheckDependencies ==
    /\ xpc = "called"
    /\ UNCHANGED <<session, parser, retrieval, ollama, call, debug_info,
                   local_vars, stdout, ran, ncalls, xprev, dataset,
                   module_globals>>
    /\ IF call.probe = "raises"
       THEN /\ xpc' = "raised" /\ exc' = "RuntimeError"
            /\ UNCHANGED <<xret, importable, missing_packages, attempted>>
       ELSE /\ missing_packages' = Missing(call, importable)
            /\ attempted' =
                  IF Lower(call.install_answer) = "yes"
                  THEN Attempted(missing_packages', call.pip) ELSE <<>>
            /\ importable' = importable \cup
                  {attempted'[i] : i \in {j \in DOMAIN attempted' :
                                             call.pip[attempted'[j]] = "installs"}}
            /\ IF ~check_and_install_dependencies(call, importable)
               THEN /\ xpc' = "returned"
                    /\ xret' = [NoDict EXCEPT !.keys = {"output", "results", "success"},
                                              !.output = <<DepsMsg>>]
                    /\ UNCHANGED exc
               ELSE /\ xpc' = "init"
                    /\ UNCHANGED <<exc, xret>>

Initialize ==
    /\ xpc = "init"
    /\ debug_info' = [data_info |-> IF call.df # None THEN DataInfo(dataset)
                                    ELSE NoDataInfo,
                      execution_step |-> "initializing"]
    /\ local_vars' = {<<"pd">>, <<"np">>} \cup
                     (IF call.df # None THEN {<<"df">>} ELSE {})
    /\ xpc' = "dates"
    /\ UNCHANGED <<session, parser, retrieval, ollama, call, stdout, exc, xret,
                   ran, ncalls, xprev, dataset, module_globals, importable,
                   missing_packages, attempted>>

\* pd.to_datetime on the date column, when there is one
ConvertDates ==
    /\ xpc = "dates"
    /\ UNCHANGED <<session, parser, retrieval, ollama, call, local_vars, stdout,
                   xret, ran, ncalls, xprev, module_globals, importable,
                   missing_packages, attempted>>
    /\ IF call.df # None /\ HasDate(call.df)
       THEN IF call.df = "baddate.csv"
            THEN /\ exc' = "ValueError" /\ xpc' = "handler"
                 /\ UNCHANGED <<debug_info, dataset>>
            ELSE /\ debug_info' =
                        [debug_info EXCEPT !.execution_step = "datetime conversion done"]
                 /\ dataset' = ToDatetime(dataset)
                 /\ xpc' = "exec"
                 /\ UNCHANGED exc
       ELSE /\ xpc' = "exec"
            /\ UNCHANGED <<debug_info, exc, dataset>>

\* exec(code_snippet, globals(), local_vars) under redirect_stdout
RunSnippet ==
    /\ xpc = "exec"
    /\ debug_info' = [debug_info EXCEPT !.execution_step = "executing code"]
    /\ ran' = TRUE
    /\ module_globals' = module_globals \cup call.globs
    /\ dataset' = IF call.adds_column
                  THEN [dataset EXCEPT !.columns = FrameOf(call.df).columns \o ",z"]
                  ELSE dataset
    /\ UNCHANGED <<session, parser, retrieval, ollama, call, xret, ncalls, xprev,
                   importable, missing_packages, attempted>>
    /\ IF call.ends = "ok"
       THEN /\ local_vars' = local_vars \cup call.binds
            /\ stdout' = IF call.prints THEN <<"printed">> ELSE <<>>
            /\ xpc' = "collect"
            /\ UNCHANGED exc
       ELSE /\ exc' = call.ends
            /\ xpc' = IF call.ends = "SystemExit" THEN "raised" ELSE "handler"
            /\ UNCHANGED <<local_vars, stdout>>

CollectResults ==
    /\ xpc = "collect"
    /\ debug_info' = [debug_info EXCEPT !.execution_step = "collecting results"]
    /\ xret' = [keys |-> {"output", "results", "success", "debug_info"},
                output |-> stdout,
                results |-> Collect(local_vars),
                success |-> TRUE,
                debug_info |-> debug_info',
                error_type |-> ""]
    /\ xpc' = "returned"
    /\ UNCHANGED <<session, parser, retrieval, ollama, call, local_vars, stdout,
                   exc, ran, ncalls, xprev, dataset, module_globals, importable,
                   missing_packages, attempted>>

\* except Exception as e
HandleException ==
    /\ xpc = "handler"
    /\ xret' = [keys |-> {"output", "results", "success", "error_context"},
                output |-> ErrorMsg(exc, debug_info),
                results |-> {},
                success |-> FALSE,
                debug_info |-> debug_info,
                error_type |-> exc]
    /\ xpc' = "returned"
    /\ UNCHANGED <<session, parser, retrieval, ollama, call, debug_info,
                   local_vars, stdout, exc, ran, ncalls, xprev, dataset,
                   module_globals, importable, missing_packages, attempted>>

\* the caller calls execute_code again with the same snippet and the same
\* DataFrame object, as the repair loop does when a fix repeats the code
CallAgain ==
    /\ xpc = "returned"
    /\ ncalls < MaxCalls
    /\ ncalls' = ncalls + 1
    /\ xprev' = xret
    /\ xpc' = "called"
    /\ debug_info' = NoDebugInfo /\ local_vars' = {} /\ stdout' = <<>>
    /\ exc' = "" /\ xret' = NoDict /\ ran' = FALSE
    /\ missing_packages' = <<>> /\ attempted' = <<>>
    /\ UNCHANGED <<session, parser, retrieval, ollama, call, dataset,
                   module_globals, importable>>

InitSandbox ==
    /\ InitSession /\ ParserIdle /\ RetrievalIdle /\ OllamaIdle
    /\ xpc = "called" /\ call \in Calls
    /\ debug_info = NoDebugInfo /\ local_vars = {} /\ stdout = <<>>
    /\ exc = "" /\ xret = NoDict /\ ran = FALSE
    /\ ncalls = 1 /\ xprev = NoDict /\ dataset = FrameOf(call.df)
    /\ module_globals = HostGlobals /\ importable = {}
    /\ missing_packages = <<>> /\ attempted = <<>>

NextSandbox ==
    \/ CheckDependencies
    \/ Initialize
    \/ ConvertDates
    \/ RunSnippet
    \/ CollectResults
    \/ HandleException
    \/ CallAgain

SandboxSpec == InitSandbox /\ [][NextSandbox]_vars

(***************************************************************************)
(* The response parser of _plan_and_execute on its own, over every         *)
(* response of at most MaxLen tokens.                                      *)
(***************************************************************************)
Tokens ==
    {ActionCodeGen, "ACTION:", "EXPLANATION:", OpenFence, Fence, NL, "forecast"}
Texts == UNION {[1..n -> Tokens] : n \in 0..MaxLen}

\* the branch taken when the response holds the CODE_GENERATION marker
ParseMarked ==
    /\ ppc = "given"
    /\ Contains(response_text, ActionCodeGen)
    /\ parsed' = ParseResponse(response_text)
    /\ ppc' = "parsed"
    /\ UNCHANGED <<session, sandbox, retrieval, ollama, response_text>>

\* the loop over the lines of a response without the marker
ParseLines ==
    /\ ppc = "given"
    /\ ~Contains(response_text, ActionCodeGen)
    /\ parsed' = ParseResponse(response_text)
    /\ ppc' = "parsed"
    /\ UNCHANGED <<session, sandbox, retrieval, ollama, response_text>>

InitParser ==
    /\ InitSession /\ SandboxIdle /\ RetrievalIdle /\ OllamaIdle
    /\ ppc = "given" /\ response_text \in Texts /\ parsed = NoParse

NextParser ==
    \/ ParseMarked
    \/ ParseLines

ParserSpec == InitParser /\ [][NextParser]_vars

(***************************************************************************)
(* The MemoryManager on its own: its methods called in any order.          *)
(***************************************************************************)
Payloads == {"good.csv", "nodate.csv"}

StoreDatasetInfo(info) ==
    /\ Len(short_term_memory) < MaxRecords
    /\ SetMemory(store_dataset_info(Mem, info))
    /\ op' = "store_dataset_info"
    /\ UNCHANGED <<rest, sandbox, parser, ollama, context>>

StoreAnalysis(analysis) ==
    /\ Len(short_term_memory) < MaxRecords
    /\ SetMemory(store_analysis(Mem, analysis))
    /\ op' = "store_analysis"
    /\ UNCHANGED <<rest, sandbox, parser, ollama, context>>

StoreInteraction(q, response) ==
    /\ Len(short_term_memory) < MaxRecords
    /\ SetMemory(store_interaction(Mem, q, response, <<>>, None, 0))
    /\ op' = "store_interaction"
    /\ UNCHANGED <<rest, sandbox, parser, ollama, context>>

GetRelevantContext ==
    /\ context' = get_relevant_context(Mem)
    /\ op' = "get_relevant_context"
    /\ UNCHANGED <<session, sandbox, parser, ollama>>

\* json.dump of short_term_memory and long_term_memory: the lists are read
SaveToDisk ==
    /\ op' = "save_to_disk"
    /\ UNCHANGED <<session, sandbox, parser, ollama, context>>

NextMemory ==
    \/ \E info \in Payloads : StoreDatasetInfo(info)
    \/ \E analysis \in Payloads : StoreAnalysis(analysis)
    \/ \E response \in {RespProse, RespForecast} : StoreInteraction(<<"plot">>, response)
    \/ GetRelevantContext
    \/ SaveToDisk

MemorySpec == Init /\ [][NextMemory]_vars

(***************************************************************************)
(* ollama_manager.get_available_models, one connection attempt at a time.  *)
(***************************************************************************)
FallbackModels == <<"llama2", "codellama">>
ServiceModels == {<<"llama3">>, <<"llama3", "mistral">>}
\* an attempt returns the models of the service, raises RequestException, or
\* raises something else (the reply has no models key)
AttemptOutcomes ==
    [kind : {"ok"}, names : ServiceModels] \cup
    [kind : {"RequestException", "KeyError"}, names : {<<>>}]

\* faulty variant: no attempt is taken to be the last
IsLastAttemptNever(n, max) == FALSE

\* attempt == max_retries - 1, n being the attempt counted from 0
IsLastAttempt(n, max) == n = max - 1

\* one pass of the for loop up to its return or its time.sleep
Request(outcome) ==
    /\ gpc = "loop"
    /\ Len(tries) < max_retries
    /\ tries' = Append(tries, outcome.kind)
    /\ UNCHANGED <<session, sandbox, parser, retrieval, max_retries,
                   retry_delay, waits, slept>>
    /\ IF outcome.kind = "ok"
       THEN /\ models' = [kind |-> "returned", value |-> outcome.names]
            /\ gpc' = "done"
       ELSE IF outcome.kind # "RequestException"
       THEN /\ models' = [kind |-> "raised", value |-> <<outcome.kind>>]
            /\ gpc' = "done"
       ELSE IF IsLastAttempt(Len(tries), max_retries)
       THEN /\ models' = [kind |-> "returned", value |-> FallbackModels]
            /\ gpc' = "done"
       ELSE /\ gpc' = "sleeping"
            /\ UNCHANGED models

\* time.sleep(retry_delay)
Sleep ==
    /\ gpc = "sleeping"
    /\ waits' = waits + 1
    /\ slept' = slept + retry_delay
    /\ gpc' = "loop"
    /\ UNCHANGED <<session, sandbox, parser, retrieval, max_retries,
                   retry_delay, tries, models>>

\* range(max_retries) is exhausted without a return: the function returns None
FallOff ==
    /\ gpc = "loop"
    /\ Len(tries) >= max_retries
    /\ models' = [kind |-> "returned", value |-> <<>>]
    /\ gpc' = "done"
    /\ UNCHANGED <<session, sandbox, parser, retrieval, max_retries,
                   retry_delay, tries, waits, slept>>

InitOllama ==
    /\ InitSession /\ SandboxIdle /\ ParserIdle /\ RetrievalIdle
    /\ gpc = "loop"
    /\ max_retries \in 0..MaxRetries /\ retry_delay \in 0..MaxDelay
    /\ tries = <<>> /\ waits = 0 /\ slept = 0 /\ models = NoModels

NextOllama ==
    \/ \E outcome \in AttemptOutcomes : Request(outcome)
    \/ Sleep
    \/ FallOff

OllamaSpec == InitOllama /\ [][NextOllama]_vars

\* the function is sequential code: requests.get has a timeout and time.sleep
\* returns, so a step that can be taken is taken
OllamaFairSpec == OllamaSpec /\ WF_vars(NextOllama)

Next ==
    \/ \E csv \in CsvFiles : CmdAnalyze(csv)
    \/ \E saved \in BOOLEAN : CmdBye(saved)
    \/ \E q \in Queries : CmdQuery(q)
    \/ \E o \in OracleOutcomes(FixReplies) : SeedReply(o)
    \/ \E o \in OracleOutcomes(FixReplies) : FixReply(o)
    \/ \E o \in OracleOutcomes(QueryReplies) : QueryReply(o)
    \/ \E o \in OracleOutcomes(FallbackReplies) : FallbackReply(o)
    \/ \E ans \in ConfirmAnswers, env \in ExecEnvs : Confirm(ans, env)
    \/ \E o \in OracleOutcomes(RepairReplies) : RepairReply(o)
    \/ \E ch \in ChoiceAnswers : Choice(ch)
    \/ \E ans \in ConfirmAnswers, env \in ExecEnvs : ConfirmExec(ans, env)

Spec == Init /\ [][Next]_vars

(***************************************************************************)
(* Properties.                                                             *)
(***************************************************************************)
\* what a step did
Executed == nExec' = nExec + 1
ExecReturned == Executed /\ lastExec'.returned
ExecFailed == ExecReturned /\ ~lastExec'.result.success
ExecSucceeded == ExecReturned /\ lastExec'.result.success
Value(text) == [kind |-> "value", text |-> text]
LoopStates == {"confirm", "wait_repair", "choice"}

\* C1: in the CODE_GENERATION loop an entry is appended to attempt_history
\* only by the step whose execute_code call returned success = false, to the
\* turn's own list; a new list starts empty; and the step whose execute_code
\* call returns success = true returns the formatted result to main without
\* an append or an oracle call, after which nothing is executed or appended
\* until main reads the next command.
C1_AppendOnlyAfterFailure ==
    [][/\ \A i \in DOMAIN lists :
            lists'[i] # lists[i] =>
                /\ pc = "confirm" /\ i = attempt_history
                /\ ExecFailed
                /\ Len(lists'[i]) = Len(lists[i]) + 1
                /\ SubSeq(lists'[i], 1, Len(lists[i])) = lists[i]
                /\ lists'[i][Len(lists'[i])].code = lastExec'.code
                /\ lists'[i][Len(lists'[i])].error = lastExec'.result.output
       /\ Len(lists') # Len(lists) =>
            Len(lists') = Len(lists) + 1 /\ lists'[Len(lists')] = <<>>
       /\ (pc = "confirm" /\ ExecSucceeded) =>
            /\ pc' = "main"
            /\ ret' = Value(format_code_output(lastExec'.result))
            /\ lists' = lists /\ nOracle' = nOracle
       /\ pc = "main" => nExec' = 0 /\ lists' = lists
      ]_vars

\* a turn ended by a successful execution that followed a failed one
C1_Witness ==
    /\ pc = "main" /\ nExec = 2 /\ Len(failed) = 1
    /\ lastExec.returned /\ lastExec.result.success
    /\ ret = Value(format_code_output(lastExec.result))
    /\ Len(lists[Len(lists)]) = 1

\* C2 as stated: at the confirmation prompt of the loop only the answer yes
\* executes; every answer other than yes and quit prompts again without
\* executing.
C2_OnlyExactYesExecutes ==
    [][(pc = "confirm" /\ answer' \notin {"yes", "quit"}) =>
            pc' = "confirm" /\ nExec' = nExec
      ]_vars

\* C2 amended: the answer is lowered before it is compared.  At the
\* confirmation prompt of the loop an answer that lowers to yes leads to one
\* execute_code call on the code presented, one that lowers to quit returns
\* the cancelled message without executing, and any other answer prompts
\* again with the same code without executing, calling the oracle or
\* appending; at the prompt of the CODE_EXECUTION action every answer that
\* does not lower to yes cancels; execute_code is called only by the step
\* that reads an answer lowering to yes at one of the two prompts.
C2_ExecuteOnlyOnYes ==
    [][/\ Executed =>
            pc \in {"confirm", "confirm_exec"} /\ Lower(answer') = "yes"
       /\ (pc = "confirm" /\ Lower(answer') = "yes") =>
            Executed /\ lastExec'.code = code
       /\ (pc = "confirm" /\ Lower(answer') = "quit") =>
            /\ pc' = "main" /\ ret' = Value(CancelledMsg)
            /\ nExec' = nExec /\ nOracle' = nOracle /\ lists' = lists
       /\ (pc = "confirm" /\ Lower(answer') \notin {"yes", "quit"}) =>
            /\ pc' = "confirm" /\ code' = code
            /\ nExec' = nExec /\ nOracle' = nOracle /\ lists' = lists
       /\ (pc = "confirm_exec" /\ Lower(answer') = "yes") =>
            Executed /\ lastExec'.code = explanation
       /\ (pc = "confirm_exec" /\ Lower(answer') # "yes") =>
            /\ pc' = "main" /\ ret' = Value(ExecCancelledMsg)
            /\ nExec' = nExec /\ nOracle' = nOracle
      ]_vars

\* the operator declined once, was asked again and then confirmed in capitals
C2_Witness ==
    /\ pc = "wait_repair" /\ attempt = 2 /\ nExec = 1
    /\ answer = "YES" /\ lastExec.code = code

\* C3: a fix query with instructions, issued after an execution and with a
\* dataset loaded, ends with the code of the oracle's reply presented to the
\* operator unless an oracle call failed.
C3_FixTurnPresentsCode ==
    (/\ pc = "main"
     /\ StartsWithFix(cmd) /\ prompt.kind \in {"fix_seed", "fix"}
     /\ DataContextError = None
     /\ ret.text \notin {ActionError("OracleError"), MainError("OracleError")})
    => presented

\* C4: a query starting with fix, read when execute_code has not been called
\* in the session, returns the no-previous-execution notice as a value, calls
\* no oracle and leaves the memory, the last-code, last-error and last-result
\* fields, the dataset and the context unchanged.
C4_FixWithoutPrevious ==
    [][(pc = "main" /\ StartsWithFix(cmd') /\ ~executed) =>
            /\ pc' = "main"
            /\ ret' = Value(NoPreviousMsg)
            /\ nOracle' = 0 /\ prompt' = NoPrompt
            /\ UNCHANGED <<memory, agent, data, lists>>
      ]_vars

\* the notice was returned in a session that holds a dataset and an interaction
C4_Witness ==
    /\ pc = "main" /\ cmd = <<"fix", "csv">> /\ ~executed
    /\ ret = Value(NoPreviousMsg)
    /\ current_data # None /\ conversation_history # <<>>

\* C5: every failed execution of the loop appends one AttemptRecord and is
\* followed by a repair request to the oracle.
C5_FailureAsksForFix ==
    [][(pc = "confirm" /\ ExecFailed) =>
            /\ Len(lists'[attempt_history]) = Len(lists[attempt_history]) + 1
            /\ pc' = "wait_repair"
            /\ nOracle' = nOracle + 1 /\ prompt'.kind = "repair"
      ]_vars

\* C6: the repair prompt sent after the k-th failed execution of the loop
\* holds the failing code, its error, and one summary entry for each of the k
\* failed executions, in their order.
C6_RepairPromptCumulative ==
    pc = "wait_repair" =>
        /\ prompt.kind = "repair"
        /\ prompt.code = lastExec.code
        /\ failed # <<>> /\ prompt.detail = <<failed[Len(failed)]>>
        /\ Len(prompt.hist) = Len(failed)
        /\ \A i \in 1..Len(failed) : prompt.hist[i].error = failed[i]
        /\ \A i \in 1..Len(failed) - 1 :
               prompt.hist[i].attempt < prompt.hist[i + 1].attempt

\* the prompt after the second failure, the two failures being different
C6_Witness ==
    /\ pc = "wait_repair" /\ Len(failed) = 2 /\ failed[1] # failed[2]
    /\ Len(prompt.hist) = 2

\* C7: a repair reply with a code block replaces the code and returns to the
\* confirmation prompt without executing; without a code block the operator
\* chooses: 2 starts process_query on the original query again, 3 returns the
\* cancelled message with no execution and no oracle call, anything else
\* presents the unchanged code again.
C7_RepairReplyAndChoice ==
    [][/\ (pc = "wait_repair" /\ pc' # "main") =>
            /\ nExec' = nExec /\ nOracle' = nOracle
            /\ fix_response' = RespRepair =>
                   pc' = "confirm" /\ code' = <<"c2">> /\ explanation' = <<"e2">>
            /\ fix_response' = RespRepairNoCode =>
                   pc' = "choice" /\ code' = code
       /\ (pc = "choice" /\ answer' = "1") =>
            /\ pc' = "confirm" /\ code' = code
            /\ nExec' = nExec /\ nOracle' = nOracle
       /\ (pc = "choice" /\ answer' = "2") =>
            /\ pc' = "wait_query" /\ query' = query
            /\ prompt' = QueryPrompt(query) /\ nOracle' = nOracle + 1
            /\ nExec' = nExec
       /\ (pc = "choice" /\ answer' = "3") =>
            /\ pc' = "main" /\ ret' = Value(CancelledMsg)
            /\ nExec' = nExec /\ nOracle' = nOracle
      ]_vars

\* the code of a first repair reply, presented again after a second reply
\* without code and the choice to retry
C7_Witness ==
    /\ pc = "confirm" /\ answer = "1"
    /\ code = <<"c2">> /\ fix_response = RespRepairNoCode
    /\ Len(failed) = 2

\* C8: the step of the loop in which execute_code returns, with success or
\* failure, leaves last_code equal to the code executed and last_error and
\* last_result derived from the result returned, whether the step returns to
\* main or goes on to ask for a fix.
C8_LastFieldsFollowExecution ==
    [][(pc = "confirm" /\ ExecReturned) =>
            /\ last_code' = code /\ last_code' = lastExec'.code
            /\ last_result' = format_code_output(lastExec'.result)
            /\ last_error' =
                   IF lastExec'.result.success
                   THEN <<lastExec'.result.results>>
                   ELSE <<lastExec'.result.output>>
      ]_vars

\* the fields after the failed execution of repaired code
C8_Witness ==
    /\ pc = "wait_repair" /\ nExec = 2
    /\ last_code = <<"c2">> /\ last_error = <<result.output>>
    /\ last_result = <<"=== Code Execution Results ===", "Execution Failed:",
                       result.output>>

\* C9 as stated, for the steps taken with a dataset that has a date column
\* and in which execute_code returns: the loop is left only by a successful
\* execution or by the operator's quit, cancel or restart.
OperatorDecision ==
    \/ pc = "confirm" /\ Quits(answer')
    \/ pc = "choice" /\ answer' \in {"2", "3"}
LeavesLoop == pc \in LoopStates /\ pc' \notin LoopStates
UndeterminedReplies == {RespProse, RespUnknown, RespGeneral}
RepliedWith(replies) ==
    /\ pc = "wait_query"
    /\ Len(conversation_history') = Len(conversation_history) + 1
    /\ last_execution'.response \in replies
C10_UnknownActionEndsTurn ==
    [][RepliedWith(UndeterminedReplies) =>
            /\ pc' = "main" /\ ret' = Value(NoActionMsg)
            /\ nOracle' = nOracle /\ nExec' = nExec
      ]_vars

\* C10 amended: a reply with no action ends the turn with the no-action
\* message, no oracle call and no execution; a reply whose action is none of
\* CODE_GENERATION, FORECAST, DATA_ANALYSIS, CODE_EXECUTION sends the original
\* query to the oracle once more and returns that reply, or the error message
\* if the call fails, without executing.
C10_NoActionEndsUnknownFallsBack ==
    [][/\ RepliedWith({RespProse}) =>
            /\ pc' = "main" /\ ret' = Value(NoActionMsg)
            /\ nOracle' = nOracle /\ nExec' = nExec
       /\ RepliedWith({RespUnknown, RespGeneral}) =>
            /\ pc' = "wait_fallback"
            /\ prompt' = FallbackPrompt(query) /\ nOracle' = nOracle + 1
            /\ nExec' = nExec
       /\ pc = "wait_fallback" =>
            /\ pc' = "main" /\ nOracle' = nOracle /\ nExec' = nExec
            /\ ret' \in {Value(RespProse), Value(ActionError("OracleError"))}
      ]_vars

\* the reply to the second request returned for an unhandled action
C10_Witness ==
    /\ pc = "main" /\ nOracle = 2 /\ prompt.kind = "fallback"
    /\ last_execution.response = RespUnknown
    /\ ret = Value(RespProse)

\* C11: a reply with the CODE_GENERATION marker and no opening fence, or an
\* opening fence and no closing fence, is parsed to no code, and the turn
\* returns the no-code message as a value without asking the operator to
\* confirm, without executing and without a further oracle call.
CodelessReplies == {RespCodeGenNoCode, RespCodeGenNoFence}
C11_NoCodeEndsTurn ==
    [][RepliedWith(CodelessReplies) =>
            /\ ParseResponse(last_execution'.response).action = <<"CODE_GENERATION">>
            /\ ParseResponse(last_execution'.response).code = <<>>
            /\ pc' = "main" /\ ret' = Value(NoCodeMsg)
            /\ presented' = presented /\ nExec' = nExec /\ nOracle' = nOracle
            /\ lists' = lists
      ]_vars

\* the no-code message returned for a reply without an opening fence
C11_Witness ==
    /\ pc = "main" /\ ret = Value(NoCodeMsg)
    /\ last_execution.response = RespCodeGenNoFence
    /\ ~presented /\ nExec = 0 /\ nOracle = 1

\* C12: with no dataset loaded, a reply whose action is FORECAST and a reply
\* whose action is DATA_ANALYSIS both end the turn with the message asking to
\* analyze a dataset first, returned as a value, and the memory gains nothing
\* but the interaction stored by process_query.
C12_NoDatasetAsksToLoad ==
    [][(RepliedWith({RespForecast, RespAnalysis}) /\ current_data = None) =>
            /\ pc' = "main" /\ ret' = Value(AnalyzeFirstMsg)
            /\ Len(short_term_memory') = Len(short_term_memory) + 1
      ]_vars

\* C13: when the dependency check of a confirmed snippet is not satisfied
\* (a module is missing and the operator declines the install) the snippet is
\* not run and the turn returns a message that holds the packages-not-
\* installed text.  Stated for a loaded dataset with a date column, where
\* the repair prompt can be built.
DependenciesUnsatisfied == ExecReturned /\ lastExec'.result.output = DepsMsg
C13_DeclinedInstallReported ==
    [][(DependenciesUnsatisfied /\ DataContextError = None) =>
            /\ ~lastExec'.result.success
            /\ pc' = "main" /\ ret'.kind = "value"
            /\ \E i \in DOMAIN ret'.text : ret'.text[i] = DepsMsg
      ]_vars

\* C14: every execute_code call ends by returning a dict, and a call in
\* which an exception or an exit was raised returns one with success false.
C14_AlwaysReturnsResult ==
    xpc # "raised"

\* C15: a call in which an exception was raised returns a dict with success
\* false, an error_context whose error_type is the kind raised, and the
\* execution_step of the last stage reached.
C15_FailureNamesKindAndStage ==
    (xpc \in {"returned", "raised"} /\ exc \notin {"", "SystemExit"}) =>
        /\ xpc = "returned" /\ ~xret.success
        /\ "error_context" \in xret.keys
        /\ xret.error_type = exc
        /\ xret.debug_info.execution_step =
               IF ran THEN "executing code" ELSE "initializing"

\* C16: a successful call returns as results the names the snippet bound
\* other than df, pd, np and names starting with two underscores, and as
\* output what it printed; a snippet that binds and prints nothing returns
\* empty results and empty output.
SnippetBindings == {k \in call.binds : k \notin Injected /\ k[1] # "__"}
OpensAt(t, i) == t[i] = OpenFence /\ \A k \in 1..(i - 1) : t[k] # OpenFence
ClosesAt(t, i, j) ==
    /\ j > i /\ t[j] = Fence
    /\ \A k \in (i + 1)..(j - 1) : t[k] \notin {Fence, OpenFence}
C17_CodeIsTextBetweenFences ==
    (ppc = "parsed" /\ Contains(response_text, ActionCodeGen)) =>
        \A i, j \in DOMAIN response_text :
            (OpensAt(response_text, i) /\ ClosesAt(response_text, i, j)) =>
                /\ parsed.action = <<"CODE_GENERATION">>
                /\ parsed.code = Strip(SubSeq(response_text, i + 1, j - 1))

\* a block with a newline before its closing fence and prose on both sides
C17_Witness ==
    /\ ppc = "parsed"
    /\ response_text = <<"forecast", ActionCodeGen, OpenFence, "forecast", NL, Fence>>
    /\ parsed.code = <<"forecast">>

\* C18: for a response without the CODE_GENERATION marker the explanation
\* parsed is the value of the first line starting with EXPLANATION: and the
\* action parsed is the value of the first line starting with ACTION:.
FirstWith(ls, prefix) ==
    IF \E i \in DOMAIN ls : ls[i] # <<>> /\ ls[i][1] = prefix
    THEN LET i == CHOOSE i \in DOMAIN ls :
                      /\ ls[i] # <<>> /\ ls[i][1] = prefix
                      /\ \A k \in 1..(i - 1) : ls[k] = <<>> \/ ls[k][1] # prefix
         IN  Strip(Tail(ls[i]))
    ELSE <<>>
C18_FirstLineWins ==
    (ppc = "parsed" /\ ~Contains(response_text, ActionCodeGen)) =>
        /\ parsed.explanation = FirstWith(Lines(response_text), "EXPLANATION:")
        /\ parsed.action = UpperSeq(FirstWith(Lines(response_text), "ACTION:"))

\* C19: a turn in which an oracle call failed ends with process_query
\* returning an error string as its value: the exception does not reach
\* main, whichever request of the turn the failed call was.
OracleFailed == Len(ret.text) = 2 /\ ret.text[2] = "OracleError"
C19_OracleFailureReturned ==
    (pc = "main" /\ OracleFailed) => ret.kind = "value"

\* C20: the main loop is left only through the /bye command.
C20_LoopLeftOnlyByBye ==
    pc = "exited" => (cmd = <<"/bye">> /\ ret.kind = "bye")

\* C21: an Interaction stored in the session memory never changes: no step
\* changes a field of an entry of conversation_history, nor the list of
\* AttemptRecords that its fixes field refers to.
C21_InteractionsNeverChange ==
    [][\A i \in DOMAIN conversation_history :
            /\ conversation_history'[i] = conversation_history[i]
            /\ conversation_history[i].fixes # 0 =>
                   lists'[conversation_history[i].fixes] =
                       lists[conversation_history[i].fixes]
      ]_vars

\* C22: the reply to the first oracle request of a turn, plain or fix,
\* appends one Interaction to the session memory, and no other step of the
\* turn appends one.
FirstReply ==
    /\ pc \in {"wait_query", "wait_seed"} /\ nOracle = 1
    /\ ret'.text \notin {QueryError("OracleError"), MainError("OracleError")}
C22_OneInteractionPerTurn ==
    [][/\ FirstReply =>
            Len(conversation_history') = Len(conversation_history) + 1
       /\ Len(conversation_history') # Len(conversation_history) => FirstReply
      ]_vars

\* C28: the step in which main reads /bye leaves the main loop.
C28_ByeEndsProgram ==
    [][(pc = "main" /\ cmd' = <<"/bye">>) => pc' = "exited"]_vars

\* C23: each of store_dataset_info, store_analysis and store_interaction adds
\* one record of its type at the end of short_term_memory and leaves the
\* records before it as they were, store_interaction alone adds an entry, at
\* the end, to conversation_history, and get_relevant_context and
\* save_to_disk leave both lists as they are.
Extends(new, old, n) ==
    Len(new) = Len(old) + n /\ SubSeq(new, 1, Len(old)) = old
StoredType ==
    [store_dataset_info |-> "dataset_info", store_analysis |-> "analysis",
     store_interaction |-> "interaction"]
C23_LogsAppendOnly ==
    [][/\ op' \in DOMAIN StoredType =>
            /\ Extends(short_term_memory', short_term_memory, 1)
            /\ short_term_memory'[Len(short_term_memory')].type = StoredType[op']
            /\ Extends(conversation_history', conversation_history,
                       IF op' = "store_interaction" THEN 1 ELSE 0)
       /\ op' \in {"get_relevant_context", "save_to_disk"} =>
            /\ short_term_memory' = short_term_memory
            /\ conversation_history' = conversation_history
      ]_vars

\* three records of the three types, in the order they were stored, after
\* the memory was saved
C23_Witness ==
    /\ op = "save_to_disk"
    /\ Len(short_term_memory) = 3
    /\ short_term_memory[1].type = "analysis"
    /\ short_term_memory[2].type = "interaction"
    /\ short_term_memory[3].type = "dataset_info"
    /\ Len(conversation_history) = 1

\* C24: get_relevant_context returns as last_analysis the payload of the
\* analysis record stored last, whatever records were stored after it, and
\* returns no last_analysis when no analysis record was stored.
AnalysisRecords ==
    {i \in DOMAIN short_term_memory : short_term_memory[i].type = "analysis"}
C24_LastAnalysisIsMostRecent ==
    op = "get_relevant_context" =>
        /\ AnalysisRecords = {} => "last_analysis" \notin context.keys
        /\ AnalysisRecords # {} =>
            /\ "last_analysis" \in context.keys
            /\ \E i \in AnalysisRecords :
                   /\ \A k \in AnalysisRecords : k <= i
                   /\ context.last_analysis = short_term_memory[i].payload
        /\ context.conversation_history = conversation_history

\* two analyses with different payloads, then an interaction: the second
C24_Witness ==
    /\ op = "get_relevant_context"
    /\ Len(short_term_memory) = 3
    /\ short_term_memory[1].type = "analysis"
    /\ short_term_memory[1].payload = "good.csv"
    /\ short_term_memory[2].type = "analysis"
    /\ short_term_memory[2].payload = "nodate.csv"
    /\ short_term_memory[3].type = "interaction"
    /\ context.last_analysis = "nodate.csv"

\* C27: when every one of the max_retries connection attempts fails with
\* RequestException, get_available_models raises RequestException and
\* returns no model list.
AllAttemptsFailed ==
    /\ gpc = "done" /\ max_retries > 0 /\ Len(tries) = max_retries
    /\ \A i \in DOMAIN tries : tries[i] = "RequestException"
C27_UnreachableRaises ==
    AllAttemptsFailed =>
        models.kind = "raised" /\ models.value = <<"RequestException">>

\* what holds of the attempts, the waits and the result in every state
AttemptsBounded ==
    /\ Len(tries) <= max_retries
    /\ \A i \in 1..(Len(tries) - 1) : tries[i] = "RequestException"
    /\ waits <= Len(tries)
    /\ max_retries > 0 => waits <= max_retries - 1
    /\ slept = waits * retry_delay
    /\ gpc = "loop" => waits = Len(tries) /\ models = NoModels
    /\ gpc = "sleeping" => waits = Len(tries) - 1 /\ Len(tries) < max_retries
    /\ (gpc = "done" /\ tries # <<>>) =>
            /\ waits = Len(tries) - 1
            /\ tries[Len(tries)] = "ok" =>
                   models.kind = "returned" /\ models.value \in ServiceModels
            /\ tries[Len(tries)] = "RequestException" => Len(tries) = max_retries
\* C30: get_available_models terminates, having made at most max_retries
\* attempts, none after an attempt that succeeded or after the
\* max_retries-th failure; it sleeps retry_delay once after each failed
\* attempt that another attempt follows, so at most max_retries - 1 times;
\* and the list of the first attempt that succeeds is what it returns.
C30_BoundedAttempts == []AttemptsBounded /\ <>(gpc = "done")

\* the second of three allowed attempts succeeds after one wait
C30_Witness ==
    /\ gpc = "done" /\ max_retries = 3 /\ retry_delay = 2
    /\ tries = <<"RequestException", "ok">>
    /\ waits = 1 /\ slept = 2
    /\ models = [kind |-> "returned", value |-> <<"llama3", "mistral">>]

\* C25: when the same failing snippet, one that does not change the dataset,
\* is run twice on the same dataset, both results carry the same shape,
\* columns and null counts in their diagnostics.
Bundle(r) ==
    [shape |-> r.debug_info.data_info.shape,
     columns |-> r.debug_info.data_info.columns,
     null_counts |-> r.debug_info.data_info.null_counts]
FailedTwice ==
    /\ ncalls = 2 /\ xpc = "returned"
    /\ "error_context" \in xret.keys /\ "error_context" \in xprev.keys
    /\ ~call.adds_column
C25_SameDiagnosticsTwice ==
    FailedTwice => Bundle(xret) = Bundle(xprev)

\* C26: when the snippet starts, the names it can reach beyond the builtins
\* are pd, np and, with a dataset, df; what a call binds is not there for a
\* later call, and the bindings of the host stay as they were.
Visible == local_vars \cup module_globals
C26_IsolatedNamespace ==
    /\ xpc = "exec" =>
          Visible = {<<"pd">>, <<"np">>} \cup
                    (IF call.df # None THEN {<<"df">>} ELSE {})
    /\ module_globals = HostGlobals

\* C29: once the operator accepts the install, install_package and the
\* import after it are tried on every missing module in order, whatever
\* happened to the ones before; what was installed stays importable; and
\* the dependencies count as satisfied exactly when every one of them was
\* installed and imported.
InstallAccepted ==
    /\ xpc \in {"init", "returned"} /\ ~ran /\ debug_info = NoDebugInfo
    /\ missing_packages # <<>>
    /\ Lower(call.install_answer) = "yes"
C29_EveryMissingModuleTried ==
    InstallAccepted =>
        /\ attempted = missing_packages
        /\ \A i \in DOMAIN attempted :
              call.pip[attempted[i]] = "installs" => attempted[i] \in importable
        /\ xpc = "init" <=>
              \A i \in DOMAIN missing_packages :
                  call.pip[missing_packages[i]] = "installs"

\* C31: in every state of the MemoryManager, conversation_history holds, in
\* the same order, the contents of the records of type interaction of
\* short_term_memory; last_execution is the last element of
\* conversation_history, and is unset exactly when conversation_history is
\* empty; and long_term_memory is empty.
InteractionRecords ==
    SelectSeq(short_term_memory, LAMBDA r : r.type = "interaction")
C31_HistoryMirrorsInteractions ==
    /\ Len(conversation_history) = Len(InteractionRecords)
    /\ \A i \in DOMAIN conversation_history :
          conversation_history[i] = InteractionRecords[i].content
    /\ conversation_history = <<>> <=> last_execution = NoInteraction
    /\ conversation_history # <<>> =>
          last_execution = conversation_history[Len(conversation_history)]
    /\ long_term_memory = <<>>

\* two interactions with different responses and an analysis between them
C31_Witness ==
    /\ Len(short_term_memory) = 3 /\ Len(conversation_history) = 2
    /\ short_term_memory[1].type = "interaction"
    /\ short_term_memory[2].type = "analysis"
    /\ short_term_memory[3].type = "interaction"
    /\ conversation_history[1].response = RespProse
    /\ conversation_history[2].response = RespForecast
    /\ last_execution = conversation_history[2]
    /\ op = "save_to_disk"

\* C32: in every attempt history the k-th record carries the attempt number
\* k: the numbers start at 1 and count the executions made, whatever the
\* operator answered at the confirmation prompts.
C32_AttemptNumbersCountExecutions ==
    \A i \in DOMAIN lists :
        \A k \in DOMAIN lists[i] : lists[i][k].attempt = k

====
